---- MODULE Spec2Model ----
(***************************************************************************)
(* A model of the EDA dashboard: CSV ingestion (eda_modules/load_data.py,  *)
(* eda_modules/preprocess.py), the analysis functions (eda_modules/        *)
(* summary.py, correlation.py, forecast.py, patterns.py), the rule-based   *)
(* and LLM insight functions and the four-node LangGraph pipeline of       *)
(* app.py.                                                                 *)
(*                                                                         *)
(* A DataFrame is a record [columns, dtypes, rows]: the column labels, the *)
(* dtype of each column and the rows in index order, each row a sequence   *)
(* of cells.  A cell is a pair <<tag, payload>>:                           *)
(*    <<"nan", 0>>  a missing value (NaN / NaT / None)                     *)
(*    <<"num", v>>  the number v                                           *)
(*    <<"str", d>>  a text cell; d >= 1 is the text of the calendar day d  *)
(*                  ("2024-01-0d"), d = 0 is a text that is no date        *)
(*    <<"ts", d>>   the Timestamp of calendar day d                        *)
(***************************************************************************)
EXTENDS Integers, Sequences, FiniteSets, TLC

VARIABLES
    gemini,   \* the session's LLM settings: the API key typed in, the client library
    csv,      \* the uploaded file: [header, rows] as tokenised by the CSV reader
    df,       \* the DataFrame the caller holds
    pc,       \* where the program is
    ret,      \* what the last call returned (or that it raised)
    state,    \* the EDAState dictionary threaded through the pipeline
    hist      \* the calls and pipeline steps so far, in order

vars == <<gemini, csv, df, pc, ret, state, hist>>

(***************************************************************************)
(* Cells and small helpers                                                 *)
(***************************************************************************)
NaN == <<"nan", 0>>
Num(v) == <<"num", v>>
Str(d) == <<"str", d>>
Ts(d) == <<"ts", d>>

IsNa(c) == c[1] = "nan"

\* What a call gave back: the function called, whether it raised, its value.
Returned(op, value) == [op |-> op, raised |-> FALSE, value |-> value]
Raised(op, error) ==
    [op |-> op, raised |-> TRUE, value |-> [kind |-> "Error", error |-> error]]
PyNone == [kind |-> "None"]
NoCall == [op |-> "", raised |-> FALSE, value |-> PyNone]
\* A Python list or dict, as its items in order.
Items(seq) == [kind |-> "items", items |-> seq]
Unset == [kind |-> "unset"]
\* The EDAState a run starts from: only "df" is given.
NoState ==
    [summary |-> Unset, ai_summary |-> Unset, correlation_plot |-> Unset,
     ai_correlation |-> Unset, forecast_plot |-> Unset, ai_forecast |-> Unset,
     outliers |-> Unset, ai_outliers |-> Unset]
\* No key typed in; the client library installed.
NoGemini == [api_key |-> "", genai |-> TRUE]
NoFrame == [columns |-> <<>>, dtypes |-> <<>>, rows |-> <<>>]

RECURSIVE SumSeq(_)
SumSeq(s) == IF s = <<>> THEN 0 ELSE Head(s) + SumSeq(Tail(s))

\* The indices of s whose element satisfies Keep, ascending.
RECURSIVE Positions(_, _, _)
Positions(s, Keep(_), i) ==
    IF i > Len(s) THEN <<>>
    ELSE (IF Keep(s[i]) THEN <<i>> ELSE <<>>) \o Positions(s, Keep, i + 1)

\* All sequences over S of length exactly n / at most n.
RECURSIVE SeqsOfLen(_, _)
SeqsOfLen(S, n) ==
    IF n = 0 THEN {<<>>}
    ELSE {Append(s, x) : s \in SeqsOfLen(S, n - 1), x \in S}

SeqsUpTo(S, n) == UNION {SeqsOfLen(S, k) : k \in 0..n}

(***************************************************************************)
(* pandas.read_csv: the dtype it infers for a column from its cells        *)
(***************************************************************************)
InferDtype(cells) ==
    IF Len(cells) = 0 THEN "object"
    ELSE IF \A i \in DOMAIN cells : cells[i][1] = "num" THEN "int64"
    ELSE IF \A i \in DOMAIN cells : cells[i][1] \in {"num", "nan"} THEN "float64"
    ELSE "object"

Column(rows, c) == [i \in DOMAIN rows |-> rows[i][c]]

ReadCsv(file) ==
    [columns |-> file.header,
     dtypes  |-> [c \in DOMAIN file.header |-> InferDtype(Column(file.rows, c))],
     rows    |-> file.rows]

(***************************************************************************)
(* Ingestion: load_and_preprocess                                          *)
(***************************************************************************)
\* A raw column label is a sequence of characters.
IsSpace(ch) == ch = " "

RECURSIVE LStrip(_)
LStrip(s) == IF s # <<>> /\ IsSpace(Head(s)) THEN LStrip(Tail(s)) ELSE s

RECURSIVE RStrip(_)
RStrip(s) ==
    IF s # <<>> /\ IsSpace(s[Len(s)]) THEN RStrip(SubSeq(s, 1, Len(s) - 1)) ELSE s

\* str.strip()
StrStrip(s) == RStrip(LStrip(s))

LowerChar(ch) ==
    CASE ch = "A" -> "a"
      [] ch = "B" -> "b"
      [] OTHER -> ch

\* str.lower()
StrLower(s) == [i \in DOMAIN s |-> LowerChar(s[i])]

\* df.columns = df.columns.str.strip().str.lower()
NormalizeColumns(columns) == [c \in DOMAIN columns |-> StrLower(StrStrip(columns[c]))]

\* df.drop_duplicates(inplace=True): a row is dropped when an earlier row has
\* the same cell in every column (missing cells compare equal to each other).
RECURSIVE DropFrom(_, _)
DropFrom(rows, i) ==
    IF i > Len(rows) THEN <<>>
    ELSE (IF \E j \in 1..(i - 1) : rows[j] = rows[i] THEN <<>> ELSE <<rows[i]>>)
         \o DropFrom(rows, i + 1)

DropDuplicates(rows) == DropFrom(rows, 1)

\* The cell that forward-fill leaves at row i of column c.
RECURSIVE FfillCell(_, _, _)
FfillCell(rows, i, c) ==
    IF ~IsNa(rows[i][c]) \/ i = 1 THEN rows[i][c] ELSE FfillCell(rows, i - 1, c)

\* A forward-fill that fills one missing cell after a value and no more.
FfillLimitOne(rows) ==
    [i \in DOMAIN rows |->
        [c \in DOMAIN rows[i] |->
            IF IsNa(rows[i][c]) /\ i > 1 THEN rows[i - 1][c] ELSE rows[i][c]]]

\* df.ffill(inplace=True)
Ffill(rows) ==
    [i \in DOMAIN rows |-> [c \in DOMAIN rows[i] |-> FfillCell(rows, i, c)]]

\* The cleanup of load_and_preprocess after the file is parsed.
Preprocess(frame) ==
    [columns |-> NormalizeColumns(frame.columns),
     dtypes  |-> frame.dtypes,
     rows    |-> Ffill(DropDuplicates(frame.rows))]

load_and_preprocess(file) == Preprocess(ReadCsv(file))

\* Bounds and inputs of the ingestion specification.
MaxCsvRows == 3

RawLabels == {<<"a">>, <<" ", "A">>, <<"B", " ">>, <<" ", "b", " ">>}
CsvCells == {NaN, Num(1), Num(2)}

IngestInit ==
    /\ gemini = NoGemini
    \* Files of two columns; the reader keeps the labels of a header distinct.
    /\ csv \in {f \in [header : RawLabels \X RawLabels,
                        rows   : SeqsUpTo(CsvCells \X CsvCells, MaxCsvRows)] :
                    f.header[1] # f.header[2]}
    /\ df = NoFrame
    /\ pc = "uploaded"
    /\ ret = NoCall
    /\ state = NoState
    /\ hist = <<>>

\* df = load_and_preprocess(file_like), applied to the file drawn in IngestInit.
Ingest ==
    /\ pc = "uploaded"
    /\ df' = load_and_preprocess(csv)
    /\ pc' = "ingested"
    /\ ret' = NoCall
    /\ UNCHANGED <<gemini, csv, state, hist>>

\* The cleanup run once more on the DataFrame it produced; ret keeps the
\* DataFrame it was given.
Reingest ==
    /\ pc = "ingested"
    /\ ret' = Returned("Preprocess", df)
    /\ df' = Preprocess(df)
    /\ pc' = "reingested"
    /\ UNCHANGED <<gemini, csv, state, hist>>

\* And a third time.
ReingestAgain ==
    /\ pc = "reingested"
    /\ ret' = Returned("Preprocess", df)
    /\ df' = Preprocess(df)
    /\ pc' = "settled"
    /\ UNCHANGED <<gemini, csv, state, hist>>

IngestNext == Ingest \/ Reingest \/ ReingestAgain

IngestSpec == IngestInit /\ [][IngestNext]_vars

HasDuplicateRows(rows) == \E i, j \in DOMAIN rows : i < j /\ rows[i] = rows[j]

\* C5 as stated: the cleanup applied to an ingestion's output gives that output
\* back.
C5_Idempotent == pc = "reingested" => df = ret.value

\* C5, amended: the cleanup applied to an ingestion's output changes neither the
\* column labels nor any cell, it only drops the rows that forward-fill has made
\* exact duplicates of an earlier row; so it gives the output back whenever the
\* output holds no two equal rows, and from the second run on the DataFrame no
\* longer changes.
C5_IdempotentUpToDuplicates ==
    /\ pc = "reingested" =>
          /\ df.columns = ret.value.columns
          /\ df.dtypes = ret.value.dtypes
          /\ df.rows = DropDuplicates(ret.value.rows)
          /\ (~HasDuplicateRows(ret.value.rows) => df = ret.value)
    /\ pc = "settled" => df = ret.value

\* A file of full height with a missing cell that forward-fill filled and a
\* label that normalisation changed, ingested to a DataFrame without equal
\* rows and ingested again.
C5_Witness ==
    /\ pc = "reingested"
    /\ ~HasDuplicateRows(ret.value.rows)
    /\ Len(ret.value.rows) = MaxCsvRows
    /\ \E i \in DOMAIN csv.rows : \E c \in DOMAIN csv.header :
          IsNa(csv.rows[i][c]) /\ ~IsNa(ret.value.rows[i][c])
    /\ csv.header # ret.value.columns
    /\ df = ret.value

(***************************************************************************)
(* Floating-point results, kept exact: a float is NaN or the fraction      *)
(* num/den with den > 0.  Every comparison with NaN is false.              *)
(***************************************************************************)
FNaN == [nan |-> TRUE, num |-> 0, den |-> 1]
Frac(n, d) == [nan |-> FALSE, num |-> n, den |-> d]
FInt(n) == Frac(n, 1)

FSub(a, b) ==
    IF a.nan \/ b.nan THEN FNaN ELSE Frac(a.num * b.den - b.num * a.den, a.den * b.den)
FAdd(a, b) ==
    IF a.nan \/ b.nan THEN FNaN ELSE Frac(a.num * b.den + b.num * a.den, a.den * b.den)
FMul(a, b) ==
    IF a.nan \/ b.nan THEN FNaN ELSE Frac(a.num * b.num, a.den * b.den)
FLt(a, b) == ~a.nan /\ ~b.nan /\ a.num * b.den < b.num * a.den
FLe(a, b) == ~a.nan /\ ~b.nan /\ a.num * b.den <= b.num * a.den
FGt(a, b) == FLt(b, a)

(***************************************************************************)
(* Series helpers                                                          *)
(***************************************************************************)
IsNumber(dtype) == dtype \in {"int64", "float64"}

\* df.select_dtypes(include="number").columns: positions of the numeric
\* columns, in column order.
NumericColumns(frame) == Positions(frame.dtypes, IsNumber, 1)

\* The non-missing numbers of column c, in row order.
RECURSIVE ValuesFrom(_, _, _)
ValuesFrom(rows, c, i) ==
    IF i > Len(rows) THEN <<>>
    ELSE (IF rows[i][c][1] = "num" THEN <<rows[i][c][2]>> ELSE <<>>)
         \o ValuesFrom(rows, c, i + 1)

Values(frame, c) == ValuesFrom(frame.rows, c, 1)

RECURSIVE InsertSorted(_, _)
InsertSorted(s, x) ==
    IF s = <<>> THEN <<x>>
    ELSE IF x < Head(s) THEN <<x>> \o s
    ELSE <<Head(s)>> \o InsertSorted(Tail(s), x)

RECURSIVE SortAsc(_)
SortAsc(s) == IF s = <<>> THEN <<>> ELSE InsertSorted(SortAsc(Tail(s)), Head(s))

\* Series.max() / Series.min() / Series.mean(): missing cells are skipped; NaN
\* when nothing is left.
SeriesMax(v) == IF v = <<>> THEN FNaN ELSE FInt(SortAsc(v)[Len(v)])
SeriesMin(v) == IF v = <<>> THEN FNaN ELSE FInt(SortAsc(v)[1])
SeriesMean(v) == IF v = <<>> THEN FNaN ELSE Frac(SumSeq(v), Len(v))

\* Series.quantile(k/4), linear interpolation: with the n values sorted, the
\* position is (n-1)*k/4; the result lies between the two closest ranks.
Quantile(v, k) ==
    IF v = <<>> THEN FNaN
    ELSE LET s    == SortAsc(v)
             pos4 == (Len(v) - 1) * k
             lo   == (pos4 \div 4) + 1
             fr   == pos4 % 4
         IN  IF fr = 0 THEN FInt(s[lo])
             ELSE Frac(4 * s[lo] + fr * (s[lo + 1] - s[lo]), 4)

(***************************************************************************)
(* eda_modules/patterns.py: detect_outliers                                *)
(***************************************************************************)
\* Q1, Q3, IQR and the two bounds of column c.
OutlierBounds(frame, c) ==
    LET Q1  == Quantile(Values(frame, c), 1)
        Q3  == Quantile(Values(frame, c), 3)
        IQR == FSub(Q3, Q1)
    IN  [Q1 |-> Q1, Q3 |-> Q3, IQR |-> IQR,
         lower_bound |-> FSub(Q1, FMul(Frac(3, 2), IQR)),
         upper_bound |-> FAdd(Q3, FMul(Frac(3, 2), IQR))]

\* A mask that also takes the values on the bounds.
OutlierMaskInclusive(cell, b) ==
    /\ cell[1] = "num"
    /\ (FLe(FInt(cell[2]), b.lower_bound) \/ FLe(b.upper_bound, FInt(cell[2])))

\* (df[col] < lower_bound) | (df[col] > upper_bound) at one cell.
OutlierMask(cell, b) ==
    /\ cell[1] = "num"
    /\ (FLt(FInt(cell[2]), b.lower_bound) \/ FGt(FInt(cell[2]), b.upper_bound))

\* df[mask][col].tolist()
RECURSIVE OutliersFrom(_, _, _, _)
OutliersFrom(rows, c, b, i) ==
    IF i > Len(rows) THEN <<>>
    ELSE (IF OutlierMask(rows[i][c], b) THEN <<rows[i][c][2]>> ELSE <<>>)
         \o OutliersFrom(rows, c, b, i + 1)

\* The report: for each numeric column, in column order, <<label, outliers>>.
detect_outliers(frame) ==
    LET cols == NumericColumns(frame)
    IN  [k \in DOMAIN cols |->
            <<frame.columns[cols[k]],
              OutliersFrom(frame.rows, cols[k], OutlierBounds(frame, cols[k]), 1)>>]

(***************************************************************************)
(* app.py: generate_rule_based_insights                                    *)
(***************************************************************************)
HighMax(col) == <<"high max", col>>
LowMin(col) == <<"low min", col>>
Fallback == <<"No significant patterns detected.", "">>

ColumnInsights(frame, c) ==
    LET mean_val == SeriesMean(Values(frame, c))
        max_val  == SeriesMax(Values(frame, c))
        min_val  == SeriesMin(Values(frame, c))
    IN  (IF FGt(max_val, FMul(mean_val, Frac(3, 2)))
            THEN <<HighMax(frame.columns[c])>> ELSE <<>>)
        \o (IF FLt(min_val, FMul(mean_val, Frac(1, 2)))
            THEN <<LowMin(frame.columns[c])>> ELSE <<>>)

RECURSIVE InsightsFrom(_, _, _)
InsightsFrom(frame, cols, k) ==
    IF k > Len(cols) THEN <<>>
    ELSE ColumnInsights(frame, cols[k]) \o InsightsFrom(frame, cols, k + 1)

\* The function without its fallback.
InsightsOrEmpty(frame) == InsightsFrom(frame, NumericColumns(frame), 1)

generate_rule_based_insights(frame) ==
    LET insights == InsightsFrom(frame, NumericColumns(frame), 1)
    IN  IF insights # <<>> THEN insights ELSE <<Fallback>>

(***************************************************************************)
(* app.py, the "Outliers" and "Insights" (rule-based) branches: the file   *)
(* is read with pd.read_csv and handed to the analysis as it is.           *)
(***************************************************************************)
MaxStatRows == 5

XCells == {NaN, Num(-2), Num(0), Num(1), Num(4)}
CityCells == {Str(0)}
XYRows ==
    {<<NaN, Num(1)>>, <<Num(-2), Num(1)>>, <<Num(1), Num(1)>>, <<Num(1), Num(3)>>,
     <<Num(4), Num(1)>>}

StatsInit ==
    /\ gemini = NoGemini
    /\ \/ csv \in [header : {<<"x">>},
                    rows   : SeqsUpTo({<<a>> : a \in XCells}, MaxStatRows)]
       \/ csv \in [header : {<<"city", "x">>},
                    rows   : SeqsUpTo(CityCells \X XCells, MaxStatRows)]
       \/ csv \in [header : {<<"x", "y">>}, rows : SeqsUpTo(XYRows, MaxStatRows)]
    /\ df = NoFrame
    /\ pc = "uploaded"
    /\ ret = NoCall
    /\ state = NoState
    /\ hist = <<>>

\* df = pd.read_csv(uploaded_file)
Upload ==
    /\ pc = "uploaded"
    /\ df' = ReadCsv(csv)
    /\ pc' = "ready"
    /\ UNCHANGED <<gemini, csv, ret, state, hist>>

\* analysis_type == "Outliers"
ShowOutliers ==
    /\ pc = "ready"
    /\ ret' = Returned("detect_outliers", Items(detect_outliers(df)))
    /\ hist' = <<<<"detect_outliers">>>>
    /\ pc' = "shown"
    /\ UNCHANGED <<gemini, csv, df, state>>

\* analysis_type == "Insights", mode "Rule-based (Offline)"
ShowInsights ==
    /\ pc = "ready"
    /\ ret' = Returned("generate_rule_based_insights", Items(generate_rule_based_insights(df)))
    /\ hist' = <<<<"generate_rule_based_insights">>>>
    /\ pc' = "shown"
    /\ UNCHANGED <<gemini, csv, df, state>>

StatsNext == Upload \/ ShowOutliers \/ ShowInsights

StatsSpec == StatsInit /\ [][StatsNext]_vars

Range(s) == {s[i] : i \in DOMAIN s}
Count(s, x) == Cardinality({i \in DOMAIN s : s[i] = x})

\* r can be had from s by deleting elements.
RECURSIVE IsSubsequence(_, _)
IsSubsequence(r, s) ==
    IF r = <<>> THEN TRUE
    ELSE IF s = <<>> THEN FALSE
    ELSE IF Head(r) = Head(s) THEN IsSubsequence(Tail(r), Tail(s))
    ELSE IsSubsequence(r, Tail(s))

BoundsOrdered(b) ==
    /\ FLe(b.lower_bound, b.Q1)
    /\ FLe(b.Q1, b.Q3)
    /\ FLe(b.Q3, b.upper_bound)

StrictlyOutside(v, b) == FLt(FInt(v), b.lower_bound) \/ FLt(b.upper_bound, FInt(v))
Within(v, b) == FLe(b.lower_bound, FInt(v)) /\ FLe(FInt(v), b.upper_bound)

\* The report has one entry per numeric column, in column order, and the entry
\* of column c splits the column's values exactly at the bounds: what is
\* reported is strictly outside, what is not is within, row order and
\* repetitions are kept.
ReportPartitions(frame, report) ==
    LET cols == NumericColumns(frame)
    IN  /\ Len(report) = Len(cols)
        /\ \A k \in DOMAIN cols :
              LET b    == OutlierBounds(frame, cols[k])
                  vals == Values(frame, cols[k])
                  r    == report[k][2]
              IN  /\ report[k][1] = frame.columns[cols[k]]
                  /\ \A i \in DOMAIN r : StrictlyOutside(r[i], b)
                  /\ \A v \in Range(vals) :
                        /\ Count(r, v) \in {0, Count(vals, v)}
                        /\ Count(r, v) = 0 => Within(v, b)
                  /\ IsSubsequence(r, vals)

\* C6 as stated: for every numeric column the bounds satisfy
\* lower <= Q1 <= Q3 <= upper and the report partitions the column's values.
C6_BoundsAndPartition ==
    (pc = "shown" /\ ret.op = "detect_outliers") =>
        /\ ~ret.raised
        /\ ReportPartitions(df, ret.value.items)
        /\ \A c \in Range(NumericColumns(df)) : BoundsOrdered(OutlierBounds(df, c))

\* C6, amended: for every numeric column that has at least one non-missing
\* value the bounds satisfy lower <= Q1 <= Q3 <= upper (a column of missing
\* values only has NaN quartiles and bounds, and an empty report); for every
\* numeric column the reported values are strictly outside the bounds, the
\* non-missing values not reported are within them, and the report keeps row
\* order and repetitions.
C6_BoundsAndPartitionOfValues ==
    (pc = "shown" /\ ret.op = "detect_outliers") =>
        /\ ~ret.raised
        /\ ReportPartitions(df, ret.value.items)
        /\ \A c \in Range(NumericColumns(df)) :
              /\ Values(df, c) # <<>> => BoundsOrdered(OutlierBounds(df, c))
              /\ Values(df, c) = <<>> => OutlierBounds(df, c).lower_bound.nan

\* Two numeric columns; the first has a missing cell, a value below its lower
\* bound reported and values kept back; the second reports nothing.
C6_Witness ==
    /\ pc = "shown"
    /\ ret.op = "detect_outliers"
    /\ Len(ret.value.items) = 2
    /\ \E i \in DOMAIN df.rows : IsNa(df.rows[i][1])
    /\ \E i \in DOMAIN ret.value.items[1][2] :
          FLt(FInt(ret.value.items[1][2][i]), OutlierBounds(df, 1).lower_bound)
    /\ Len(ret.value.items[1][2]) < Len(Values(df, 1))
    /\ ret.value.items[2][2] = <<>>

\* Where an insight stands in the order the function emits them: by column,
\* and within a column the high-max insight first.
InsightRank(frame, ins) ==
    LET c == CHOOSE c \in DOMAIN frame.columns : frame.columns[c] = ins[2]
    IN  2 * c + (IF ins[1] = "high max" THEN 0 ELSE 1)

\* max > 1.5 * mean and min < 0.5 * mean over the n non-missing values, in
\* whole numbers: 2 * n * max > 3 * sum, 2 * n * min < sum.
TriggersHighMax(v) == v # <<>> /\ \E m \in Range(v) :
    (\A x \in Range(v) : x <= m) /\ 2 * Len(v) * m > 3 * SumSeq(v)
TriggersLowMin(v) == v # <<>> /\ \E m \in Range(v) :
    (\A x \in Range(v) : x >= m) /\ 2 * Len(v) * m < SumSeq(v)

\* C7: generate_rule_based_insights returns a non-empty list; it holds the
\* high-max insight of a numeric column exactly when max > 1.5 x mean and the
\* low-min insight exactly when min < 0.5 x mean, nothing else, in column
\* order, each once; when no column triggers a rule it is the fallback alone.
C7_RuleBasedInsights ==
    (pc = "shown" /\ ret.op = "generate_rule_based_insights") =>
        LET out  == ret.value.items
            cols == Range(NumericColumns(df))
            any  == \E c \in cols :
                        TriggersHighMax(Values(df, c)) \/ TriggersLowMin(Values(df, c))
        IN  /\ ~ret.raised
            /\ Len(out) >= 1
            /\ \A c \in cols :
                  /\ HighMax(df.columns[c]) \in Range(out) <=> TriggersHighMax(Values(df, c))
                  /\ LowMin(df.columns[c]) \in Range(out) <=> TriggersLowMin(Values(df, c))
            /\ ~any => out = <<Fallback>>
            /\ any =>
                  /\ \A i \in DOMAIN out :
                        \E c \in cols : out[i] \in {HighMax(df.columns[c]), LowMin(df.columns[c])}
                  /\ \A i, j \in DOMAIN out :
                        i < j => InsightRank(df, out[i]) < InsightRank(df, out[j])

\* Both rules trigger on the first numeric column and the high-max rule on the
\* second: three insights in column order.
C7_Witness ==
    /\ pc = "shown"
    /\ ret.op = "generate_rule_based_insights"
    /\ ret.value.items = <<HighMax("x"), LowMin("x"), HighMax("y")>>

\* No numeric column at all, or none that triggers: the fallback.
C7_WitnessFallback ==
    /\ pc = "shown"
    /\ ret.op = "generate_rule_based_insights"
    /\ ret.value.items = <<Fallback>>
    /\ Len(df.rows) = MaxStatRows
    /\ \E i \in DOMAIN df.rows : IsNa(df.rows[i][1])

(***************************************************************************)
(* eda_modules/forecast.py: generate_forecast                              *)
(***************************************************************************)
\* The position of the column labelled name, 0 when there is none.
ColumnIndex(frame, name) ==
    IF \E c \in DOMAIN frame.columns : frame.columns[c] = name
    THEN CHOOSE c \in DOMAIN frame.columns : frame.columns[c] = name
    ELSE 0

\* pd.to_datetime on one cell: a date text parses to its Timestamp, a missing
\* cell becomes NaT, a Timestamp stays; a text that is no date does not parse.
Parses(cell) == ~(cell[1] = "str" /\ cell[2] = 0)

ToDatetimeCell(cell) ==
    CASE cell[1] = "str" -> Ts(cell[2])
      [] cell[1] = "ts"  -> cell
      [] cell[1] = "nan" -> NaN

\* df["date"] = pd.to_datetime(df["date"]): the frame with its date column
\* replaced by the converted one.
WithDatetime(frame, d) ==
    [columns |-> frame.columns,
     dtypes  |-> [c \in DOMAIN frame.dtypes |->
                    IF c = d THEN "datetime64[ns]" ELSE frame.dtypes[c]],
     rows    |-> [i \in DOMAIN frame.rows |->
                    [c \in DOMAIN frame.rows[i] |->
                        IF c = d THEN ToDatetimeCell(frame.rows[i][c])
                        ELSE frame.rows[i][c]]]]

\* df.dropna(subset=[target_column])
RECURSIVE DropNaFrom(_, _, _)
DropNaFrom(rows, t, i) ==
    IF i > Len(rows) THEN <<>>
    ELSE (IF IsNa(rows[i][t]) THEN <<>> ELSE <<rows[i]>>) \o DropNaFrom(rows, t, i + 1)

\* Row a goes before row b in date order; NaT goes last.
DateBefore(a, b, d) == ~IsNa(a[d]) /\ (IsNa(b[d]) \/ a[d][2] < b[d][2])

RECURSIVE InsertByDate(_, _, _)
InsertByDate(sorted, row, d) ==
    IF sorted = <<>> THEN <<row>>
    ELSE IF DateBefore(row, Head(sorted), d) THEN <<row>> \o sorted
    ELSE <<Head(sorted)>> \o InsertByDate(Tail(sorted), row, d)

\* df.sort_values("date"): ascending, rows of equal date in their former order
\* (the sort of a handful of rows is an insertion sort).
RECURSIVE SortByDate(_, _)
SortByDate(rows, d) ==
    IF rows = <<>> THEN <<>>
    ELSE InsertByDate(SortByDate(SubSeq(rows, 1, Len(rows) - 1), d), rows[Len(rows)], d)

\* Sum of i * y[i+1] over the time index i = 0..n-1.
RECURSIVE SumTY(_, _)
SumTY(y, n) == IF n = 0 THEN 0 ELSE SumTY(y, n - 1) + (n - 1) * y[n]

\* LinearRegression().fit(X, y) with X the time index 0..n-1, n >= 1: the
\* least-squares slope and intercept; one sample gives slope 0.
LinearRegressionFit(y) ==
    LET n   == Len(y)
        St  == (n * (n - 1)) \div 2
        Stt == ((n - 1) * n * (2 * n - 1)) \div 6
        Sy  == SumSeq(y)
        D   == n * Stt - St * St
        coef == IF n = 1 THEN FInt(0) ELSE Frac(n * SumTY(y, n) - St * Sy, D)
    IN  [coef |-> coef,
         intercept |-> FSub(Frac(Sy, n), FMul(coef, Frac(St, n)))]

\* model.predict at time index t
Predict(model, t) == FAdd(model.intercept, FMul(model.coef, FInt(t)))

\* df["date"].max(): the latest date, NaT when every date is missing.
MaxDate(rows, d) ==
    IF \A i \in DOMAIN rows : IsNa(rows[i][d]) THEN NaN
    ELSE LET i == CHOOSE i \in DOMAIN rows :
                    /\ ~IsNa(rows[i][d])
                    /\ \A j \in DOMAIN rows : IsNa(rows[j][d]) \/ rows[j][d][2] <= rows[i][d][2]
         IN  rows[i][d]

\* The figure: the observed line and the dashed forecast line.
Figure(actual, forecast) == [kind |-> "Figure", actual |-> actual, forecast |-> forecast]

\* A column label handed over as an argument; the argument can also be None.
Label(name) == [kind |-> "str", name |-> name]

\* The position of the column the argument names, 0 when it names none (None
\* is no column's label).
TargetIndex(frame, target_column) ==
    IF target_column.kind = "str" THEN ColumnIndex(frame, target_column.name) ELSE 0

\* generate_forecast(df, target_column, steps): what the call gives back and
\* the caller's DataFrame after it.
generate_forecast(frame, target_column, steps) ==
    LET d == ColumnIndex(frame, "date")
        t == TargetIndex(frame, target_column)
    IN  IF d = 0 \/ t = 0
        THEN [result |-> Returned("generate_forecast", PyNone), df |-> frame]
        ELSE IF \E i \in DOMAIN frame.rows : ~Parses(frame.rows[i][d])
        THEN [result |-> Raised("generate_forecast", "to_datetime: DateParseError"),
              df |-> frame]
        ELSE
        LET caller == WithDatetime(frame, d)
            local  == SortByDate(DropNaFrom(caller.rows, t, 1), d)
            n      == Len(local)
            y      == [i \in 1..n |-> local[i][t][2]]
            model  == LinearRegressionFit(y)
            last   == MaxDate(local, d)
        IN  IF n = 0
            THEN [result |-> Raised("generate_forecast", "fit: ValueError"), df |-> caller]
            ELSE IF steps = 0
            THEN [result |-> Raised("generate_forecast", "predict: ValueError"), df |-> caller]
            ELSE IF IsNa(last)
            THEN [result |-> Raised("generate_forecast", "date_range: ValueError"),
                  df |-> caller]
            ELSE [result |-> Returned("generate_forecast",
                      Figure([i \in 1..n |-> <<local[i][d], local[i][t][2]>>],
                             [k \in 1..steps |->
                                <<Ts(last[2] + k), Predict(model, n + k - 1)>>])),
                  df |-> caller]

(***************************************************************************)
(* eda_modules/summary.py and eda_modules/correlation.py                   *)
(***************************************************************************)
NonNull(frame, c) == Cardinality({i \in DOMAIN frame.rows : ~IsNa(frame.rows[i][c])})
NUnique(frame, c) ==
    Cardinality({frame.rows[i][c] : i \in {j \in DOMAIN frame.rows : ~IsNa(frame.rows[j][c])}})

IsMissingSome(frame, c) == NonNull(frame, c) < Len(frame.rows)
IsObject(dtype) == dtype = "object"

\* The report's facts, section by section: the shape, each column's dtype and
\* non-null count, the missing count of the columns that miss some, the
\* distinct count of each object column.  (The describe() table and the
\* top-3 lists are text the model does not carry.)
generate_summary(frame) ==
    LET all     == [c \in DOMAIN frame.columns |-> c]
        HasGap(c) == IsMissingSome(frame, c)
        missing == Positions(all, HasGap, 1)
        cats    == Positions(frame.dtypes, IsObject, 1)
    IN  [kind    |-> "str",
         shape   |-> <<Len(frame.rows), Len(frame.columns)>>,
         info    |-> [c \in DOMAIN frame.columns |->
                        <<frame.columns[c], frame.dtypes[c], NonNull(frame, c)>>],
         missing |-> [k \in DOMAIN missing |->
                        <<frame.columns[missing[k]],
                          Len(frame.rows) - NonNull(frame, missing[k])>>],
         categorical |-> [k \in DOMAIN cats |->
                        <<frame.columns[cats[k]], NUnique(frame, cats[k])>>]]

\* generate_correlation: the heatmap of the correlation matrix of the numeric
\* columns, carried here by its labels; drawing an empty matrix raises (the
\* colour range is the minimum of no cells).
generate_correlation(frame) ==
    LET cols == NumericColumns(frame)
    IN  IF cols = <<>>
        THEN Raised("generate_correlation", "heatmap: ValueError")
        ELSE Returned("generate_correlation",
                      [kind |-> "Figure",
                       labels |-> [k \in DOMAIN cols |-> frame.columns[cols[k]]]])

(***************************************************************************)
(* app.py, the single-analysis branches on a file with a date column       *)
(***************************************************************************)
MaxFcRows == 3
MaxSteps == 2
DefaultSteps == 365

DateCells == {NaN, Str(0), Str(1), Str(2), Str(3)}
SalesCells == {NaN, Num(0), Num(1), Num(3)}

ForecastInit ==
    /\ gemini = NoGemini
    /\ \/ csv \in [header : {<<"date", "sales">>},
                    rows   : SeqsUpTo(DateCells \X SalesCells, MaxFcRows)]
       \/ csv \in [header : {<<"date", "city">>},
                    rows   : SeqsUpTo(DateCells \X CityCells, MaxFcRows)]
       \/ csv \in [header : {<<"sales">>},
                    rows   : SeqsUpTo({<<a>> : a \in SalesCells}, MaxFcRows)]
    /\ df = NoFrame
    /\ pc = "uploaded"
    /\ ret = NoCall
    /\ state = NoState
    /\ hist = <<>>

\* analysis_type == "Summary"
ShowSummary ==
    /\ pc = "ready"
    /\ ret' = Returned("generate_summary", generate_summary(df))
    /\ hist' = <<<<"generate_summary">>>>
    /\ pc' = "shown"
    /\ UNCHANGED <<gemini, csv, df, state>>

\* analysis_type == "Correlation"
ShowCorrelation ==
    /\ pc = "ready"
    /\ ret' = generate_correlation(df)
    /\ hist' = <<<<"generate_correlation">>>>
    /\ pc' = "shown"
    /\ UNCHANGED <<gemini, csv, df, state>>

\* st.selectbox over df.select_dtypes(include='number').columns: one of the
\* numeric columns, None when there is none.
TargetChoices(frame) ==
    IF NumericColumns(frame) = <<>> THEN {PyNone}
    ELSE {Label(frame.columns[c]) : c \in Range(NumericColumns(frame))}

\* analysis_type == "Forecast": generate_forecast(df, selected_column), with
\* the default number of steps.
ShowForecast ==
    /\ pc = "ready"
    /\ \E selected_column \in TargetChoices(df) :
          LET call == generate_forecast(df, selected_column, DefaultSteps)
          IN  /\ ret' = call.result
              /\ df' = call.df
              /\ hist' = <<<<"generate_forecast", selected_column, DefaultSteps>>>>
    /\ pc' = "shown"
    /\ UNCHANGED <<gemini, csv, state>>

ForecastNext ==
    Upload \/ ShowSummary \/ ShowCorrelation \/ ShowForecast \/ ShowOutliers
    \/ ShowInsights

ForecastSpec == ForecastInit /\ [][ForecastNext]_vars

(***************************************************************************)
(* generate_forecast as a function of its three arguments: a DataFrame as  *)
(* pd.read_csv gives it, a target column (a label or None) and a number of *)
(* steps.                                                                  *)
(***************************************************************************)
TargetArguments == {Label("sales"), Label("price"), PyNone}
StepArguments == (0..MaxSteps) \cup {DefaultSteps}

ForecastCallInit ==
    /\ gemini = NoGemini
    /\ \/ csv \in [header : {<<"date", "sales">>},
                    rows   : SeqsUpTo(DateCells \X SalesCells, MaxFcRows)]
       \/ csv \in [header : {<<"date", "city">>},
                    rows   : SeqsUpTo(DateCells \X CityCells, MaxFcRows)]
       \/ csv \in [header : {<<"sales">>},
                    rows   : SeqsUpTo({<<a>> : a \in SalesCells}, MaxFcRows)]
    /\ df = ReadCsv(csv)
    /\ pc = "ready"
    /\ ret = NoCall
    /\ state = NoState
    /\ hist = <<>>

\* generate_forecast(df, target_column, steps)
CallForecast ==
    /\ pc = "ready"
    /\ \E target_column \in TargetArguments, steps \in StepArguments :
          LET call == generate_forecast(df, target_column, steps)
          IN  /\ ret' = call.result
              /\ df' = call.df
              /\ hist' = <<<<"generate_forecast", target_column, steps>>>>
    /\ pc' = "shown"
    /\ UNCHANGED <<gemini, csv, state>>

ForecastCallNext == CallForecast

ForecastCallSpec == ForecastCallInit /\ [][ForecastCallNext]_vars

ForecastCalled == pc = "shown" /\ ret.op = "generate_forecast"

\* C3: generate_forecast returns None and does not raise when the "date"
\* column or the target column is absent or the target has no non-missing
\* value, and returns a chart in every other case.  (The other cases are
\* taken here with a horizon of at least one day and dates that all parse,
\* one of them at least present, and all with a target other than "date".)
C3_UnavailableIsNone ==
    (ForecastCalled /\ hist[1][2] # Label("date")) =>
        LET frame  == ReadCsv(csv)
            d      == ColumnIndex(frame, "date")
            t      == TargetIndex(frame, hist[1][2])
            unavailable == d = 0 \/ t = 0 \/ NonNull(frame, t) = 0
            regular == /\ hist[1][3] >= 1
                       /\ \A i \in DOMAIN frame.rows : Parses(frame.rows[i][d])
                       /\ \E i \in DOMAIN frame.rows :
                             ~IsNa(frame.rows[i][d]) /\ ~IsNa(frame.rows[i][t])
        IN  /\ unavailable => (~ret.raised /\ ret.value = PyNone)
            /\ (~unavailable /\ regular) => (~ret.raised /\ ret.value.kind = "Figure")

\* C4: after any analysis call the caller's DataFrame is what it was before the
\* call: same columns, same dtypes, same cells, same row order.  (Taken here
\* over the calls that return.)
C4_DatasetReadOnly == (pc = "shown" /\ ~ret.raised) => df = ReadCsv(csv)

\* The sum of the residuals y[i] - line(i-1), and of the residuals weighted by
\* the time index: both are zero for the least-squares line.
RECURSIVE ResidualSum(_, _, _, _)
ResidualSum(y, model, n, weighted) ==
    IF n = 0 THEN FInt(0)
    ELSE FAdd(ResidualSum(y, model, n - 1, weighted),
              FMul(FInt(IF weighted THEN n - 1 ELSE 1),
                   FSub(FInt(y[n]), Predict(model, n - 1))))

FIsZero(a) == ~a.nan /\ a.num = 0
FSame(a, b) == ~a.nan /\ ~b.nan /\ a.num * b.den = b.num * a.den

IsLeastSquaresLine(y, model) ==
    /\ FIsZero(ResidualSum(y, model, Len(y), FALSE))
    /\ FIsZero(ResidualSum(y, model, Len(y), TRUE))
    /\ Len(y) = 1 => FIsZero(model.coef)

\* The forecast of a call with horizon h on a frame whose date cells are all
\* dates and whose target has n >= 1 values: h points, on the h days after the
\* latest date of the rows that have a target value, the k-th on the fitted
\* line at time index n + k.
ForecastPoints(h) ==
    LET frame == ReadCsv(csv)
        d     == ColumnIndex(frame, "date")
        t     == TargetIndex(frame, hist[1][2])
        obs   == SortByDate(DropNaFrom(frame.rows, t, 1), d)
        n     == Len(obs)
        y     == [i \in 1..n |-> obs[i][t][2]]
        last  == CHOOSE m \in {obs[i][d][2] : i \in 1..n} :
                    \A i \in 1..n : obs[i][d][2] <= m
        model == LinearRegressionFit(y)
        fc    == ret.value.forecast
    IN  /\ ~ret.raised
        /\ ret.value.kind = "Figure"
        /\ Len(fc) = h
        /\ IsLeastSquaresLine(y, model)
        /\ \A k \in 1..h :
              /\ fc[k][1] = Ts(last + k)
              /\ \A i \in 1..n : obs[i][d][2] < fc[k][1][2]
              /\ FSame(fc[k][2], Predict(model, n + k - 1))

\* Every forecast date is after every date of the file.
AfterEveryInputDate ==
    LET frame == ReadCsv(csv)
        d     == ColumnIndex(frame, "date")
    IN  (~ret.raised /\ ret.value.kind = "Figure") =>
            \A k \in DOMAIN ret.value.forecast : \A i \in DOMAIN frame.rows :
                frame.rows[i][d][2] < ret.value.forecast[k][1][2]

ForecastApplies ==
    /\ ForecastCalled
    /\ LET frame == ReadCsv(csv)
           d     == ColumnIndex(frame, "date")
           t     == TargetIndex(frame, hist[1][2])
       IN  /\ d # 0
           /\ t # 0
           /\ \A i \in DOMAIN frame.rows :
                 frame.rows[i][d][1] = "str" /\ frame.rows[i][d][2] >= 1
           /\ NonNull(frame, t) >= 1

\* C10: for every horizon h >= 0 the call produces exactly h forecast points,
\* on the h consecutive days after the latest observed date, all after every
\* input date, the k-th on the fitted trend line at time index n + k.
C10_ForecastPoints ==
    ForecastApplies => (ForecastPoints(hist[1][3]) /\ AfterEveryInputDate)

\* What does hold: for the horizons h >= 1 the h points lie on the h days
\* after the latest date among the rows that have a target value.
ForecastPointsPositiveHorizon ==
    (ForecastApplies /\ hist[1][3] >= 1) => ForecastPoints(hist[1][3])

\* With every target value present and h >= 1 the dates are also after every
\* date of the file.
ForecastAfterInputWhenComplete ==
    (ForecastApplies /\ hist[1][3] >= 1
        /\ \A i \in DOMAIN csv.rows : \A c \in DOMAIN csv.header : ~IsNa(csv.rows[i][c]))
    => AfterEveryInputDate

(***************************************************************************)
(* app.py: get_gemini_client / gemini_explain                              *)
(***************************************************************************)
Text(text) == [kind |-> "str", text |-> text]
NotProvided == Text("Gemini API key not provided or google-genai not installed.")
GeminiError == Text("Gemini error: {e}")
ResponseText(prompt) == [kind |-> "str", text |-> "response.text", prompt |-> prompt]

\* What the provider's library does when it is used: the client is built and
\* the call answers with text, answers without any text part (response.text
\* is None), or raises; or building the client raises.
LLMOutcomes == {"text", "no text", "call raises", "client raises"}

\* if not gemini_api_key or not genai: return None
ClientConfigured(settings) == settings.api_key # "" /\ settings.genai

\* gemini_explain(prompt): get_gemini_client() runs before the try block, the
\* call to the model inside it.
gemini_explain(settings, prompt, outcome) ==
    IF ~ClientConfigured(settings) THEN Returned("gemini_explain", NotProvided)
    ELSE IF outcome = "client raises"
         THEN Raised("gemini_explain", "genai.Client: Exception")
    ELSE IF outcome = "call raises" THEN Returned("gemini_explain", GeminiError)
    ELSE IF outcome = "no text" THEN Returned("gemini_explain", PyNone)
    ELSE Returned("gemini_explain", ResponseText(prompt))

(***************************************************************************)
(* app.py: the LangGraph nodes.  Each gives the step's outcome: whether it *)
(* raised, the EDAState and the DataFrame after it, and the events it got  *)
(* through (<<node, "result">> when the analysis returned, <<node,         *)
(* "explain">> when the explanation was asked for, <<node, "store">> when  *)
(* both were stored).                                                      *)
(***************************************************************************)
NoNumericColumns == Text("No numeric columns available for forecasting.")

NodeFailed(error, frame, events) ==
    [raised |-> TRUE, error |-> error, state |-> NoState, df |-> frame, events |-> events]
NodeDone(st, frame, events) ==
    [raised |-> FALSE, error |-> NoCall, state |-> st, df |-> frame, events |-> events]

summary_node(st, frame, settings, outcome) ==
    LET summary        == generate_summary(frame)
        ai_explanation == gemini_explain(settings, "summary", outcome)
    IN  IF ai_explanation.raised
        THEN NodeFailed(ai_explanation, frame,
                        <<<<"Summary", "result">>, <<"Summary", "explain">>>>)
        ELSE NodeDone([st EXCEPT !.summary = summary,
                                 !.ai_summary = ai_explanation.value],
                      frame,
                      <<<<"Summary", "result">>, <<"Summary", "explain">>,
                        <<"Summary", "store">>>>)

correlation_node(st, frame, settings, outcome) ==
    LET fig            == generate_correlation(frame)
        ai_explanation == gemini_explain(settings, "correlation", outcome)
    IN  IF fig.raised THEN NodeFailed(fig, frame, <<>>)
        ELSE IF ai_explanation.raised
        THEN NodeFailed(ai_explanation, frame,
                        <<<<"Correlation", "result">>, <<"Correlation", "explain">>>>)
        ELSE NodeDone([st EXCEPT !.correlation_plot = fig.value,
                                 !.ai_correlation = ai_explanation.value],
                      frame,
                      <<<<"Correlation", "result">>, <<"Correlation", "explain">>,
                        <<"Correlation", "store">>>>)

\* DataFrame.empty: no rows or no columns.
IsEmpty(frame) == Len(frame.rows) = 0 \/ Len(frame.columns) = 0

forecast_node(st, frame, settings, outcome) ==
    LET cols == NumericColumns(frame)
    IN  IF ~IsEmpty(frame) /\ cols = <<>>
        THEN NodeFailed(Raised("forecast_node", "columns[0]: IndexError"), frame, <<>>)
        ELSE IF ~IsEmpty(frame) /\ frame.columns[cols[1]] # ""
        THEN LET call == generate_forecast(frame, Label(frame.columns[cols[1]]), DefaultSteps)
                 ai_explanation == gemini_explain(settings, "forecast", outcome)
             IN  IF call.result.raised THEN NodeFailed(call.result, call.df, <<>>)
                 ELSE IF ai_explanation.raised
                 THEN NodeFailed(ai_explanation, call.df,
                                 <<<<"Forecast", "result">>, <<"Forecast", "explain">>>>)
                 ELSE NodeDone([st EXCEPT !.forecast_plot = call.result.value,
                                          !.ai_forecast = ai_explanation.value],
                               call.df,
                               <<<<"Forecast", "result">>, <<"Forecast", "explain">>,
                                 <<"Forecast", "store">>>>)
        ELSE NodeDone([st EXCEPT !.forecast_plot = PyNone,
                                 !.ai_forecast = NoNumericColumns],
                      frame,
                      <<<<"Forecast", "result">>, <<"Forecast", "store">>>>)

outlier_node(st, frame, settings, outcome) ==
    LET outliers       == Items(detect_outliers(frame))
        ai_explanation == gemini_explain(settings, "outliers", outcome)
    IN  IF ai_explanation.raised
        THEN NodeFailed(ai_explanation, frame,
                        <<<<"Outliers", "result">>, <<"Outliers", "explain">>>>)
        ELSE NodeDone([st EXCEPT !.outliers = outliers,
                                 !.ai_outliers = ai_explanation.value],
                      frame,
                      <<<<"Outliers", "result">>, <<"Outliers", "explain">>,
                        <<"Outliers", "store">>>>)

(***************************************************************************)
(* app.py: the "Full AI-Powered Analysis" branch, eda_app.invoke, and the  *)
(* AI-powered "Insights" branch                                            *)
(***************************************************************************)
MaxRunRows == 2

RunDateCells == {Str(1), Str(2)}
RunSalesCells == {NaN, Num(1), Num(3)}

Init ==
    /\ gemini \in [api_key : {"", "key"}, genai : BOOLEAN]
    /\ \/ csv \in [header : {<<"date", "sales">>},
                    rows   : SeqsUpTo(RunDateCells \X RunSalesCells, MaxRunRows)]
       \/ csv \in [header : {<<"sales">>},
                    rows   : SeqsUpTo({<<a>> : a \in RunSalesCells}, MaxRunRows)]
       \/ csv \in [header : {<<"city">>},
                    rows   : SeqsUpTo({<<a>> : a \in CityCells}, MaxRunRows)]
    /\ df = NoFrame
    /\ pc = "uploaded"
    /\ ret = NoCall
    /\ state = NoState
    /\ hist = <<>>

\* analysis_type == "Insights", mode "AI-powered (Gemini)"
ShowAIInsights ==
    /\ pc = "ready"
    /\ \E outcome \in LLMOutcomes : ret' = gemini_explain(gemini, "stats", outcome)
    /\ pc' = "shown"
    /\ UNCHANGED <<gemini, csv, df, state, hist>>

\* results = eda_app.invoke({"df": df}): START -> Summary
Invoke ==
    /\ pc = "ready"
    /\ pc' = "Summary"
    /\ state' = NoState
    /\ UNCHANGED <<gemini, csv, df, ret, hist>>

\* One node of the graph run to its end: on success the edge to the next node
\* is taken, on an exception invoke raises and the branch's results are lost.
Step(node, next, out) ==
    /\ pc = node
    /\ df' = out.df
    /\ hist' = hist \o out.events
    /\ IF out.raised
       THEN /\ pc' = "failed"
            /\ ret' = out.error
            /\ UNCHANGED state
       ELSE /\ pc' = next
            /\ state' = out.state
            /\ UNCHANGED ret
    /\ UNCHANGED <<gemini, csv>>

SummaryNode ==
    \E outcome \in LLMOutcomes :
        Step("Summary", "Correlation", summary_node(state, df, gemini, outcome))

CorrelationNode ==
    \E outcome \in LLMOutcomes :
        Step("Correlation", "Forecast", correlation_node(state, df, gemini, outcome))

ForecastNode ==
    \E outcome \in LLMOutcomes :
        Step("Forecast", "Outliers", forecast_node(state, df, gemini, outcome))

OutlierNode ==
    \E outcome \in LLMOutcomes :
        Step("Outliers", "END", outlier_node(state, df, gemini, outcome))

Next ==
    Upload \/ ShowAIInsights \/ Invoke \/ SummaryNode \/ CorrelationNode
    \/ ForecastNode \/ OutlierNode

Spec == Init /\ [][Next]_vars

RunOver == pc \in {"END", "failed"}
AllStored == \A k \in DOMAIN state : state[k] # Unset

StageEvents(node) == <<<<node, "result">>, <<node, "explain">>, <<node, "store">>>>
FullRun ==
    StageEvents("Summary") \o StageEvents("Correlation") \o StageEvents("Forecast")
    \o StageEvents("Outliers")

HasNumericColumn(frame) == NumericColumns(frame) # <<>>
InRun == pc \in {"Summary", "Correlation", "Forecast", "Outliers", "END", "failed"}

\* C1: a run reaches the end and returns all four (result, insight) pairs,
\* whatever the dataset; no stage's failure or "unavailable" outcome aborts it.
\* (Taken here with no API key typed in, so that no insight call can raise,
\* and on a dataset that has a numeric column.)
C1_RunReturnsAllFour ==
    (gemini.api_key = "" /\ HasNumericColumn(ReadCsv(csv)) /\ InRun)
    => /\ pc # "failed"
       /\ pc = "END" => AllStored

\* C2: gemini_explain never lets an exception reach its caller: it returns
\* the "not provided" line without a credential or library, and the "Gemini
\* error" line, a different text, when the client construction or the call
\* raises.
C2_ExplainNeverRaises ==
    ret.op = "gemini_explain" =>
        /\ ~ret.raised
        /\ ~ClientConfigured(gemini) => ret.value = NotProvided
        /\ NotProvided # GeminiError

\* C8: in every run the four stages execute in the order Summary, Correlation,
\* Forecast, Outliers, each exactly once, each computing its result, asking
\* for its explanation and storing both before the next one starts.
\* (Taken here with no API key typed in and on a dataset that has a numeric
\* column.)
C8_FourStagesInOrder ==
    (gemini.api_key = "" /\ HasNumericColumn(ReadCsv(csv)) /\ RunOver) => hist = FullRun

\* What does hold of every run, aborted or not: the events so far are a prefix
\* of the fixed order (a Forecast stage may store without asking).
IsPrefix(a, b) == Len(a) <= Len(b) /\ SubSeq(b, 1, Len(a)) = a

StagesFormPrefix == IsPrefix(hist, FullRun)

\* C9: the Forecast stage forecasts the first numeric column whenever there is
\* one, and records the "unavailable" outcome without raising whenever there
\* is none.  (Taken here with no API key typed in and on a file that has rows.)
C9_ForecastStage ==
    (gemini.api_key = "" /\ csv.rows # <<>> /\ RunOver) =>
        LET frame == ReadCsv(csv)
            cols  == NumericColumns(frame)
        IN  IF cols = <<>>
            THEN /\ state.forecast_plot = PyNone
                 /\ state.ai_forecast = NoNumericColumns
            ELSE state.forecast_plot # Unset =>
                    state.forecast_plot =
                        generate_forecast(frame, Label(frame.columns[cols[1]]),
                                          DefaultSteps).result.value

====
